---- MODULE Spec2Model ----
(***************************************************************************)
(* Workflow engine of the image "encryption" dashboard.                    *)
(*                                                                         *)
(* Two builds of the EncryptionDashboard component are modelled:           *)
(*   variant = "local"  : src/src/components/EncryptionDashboard.tsx,      *)
(*                        lines 259-730 (canvas simulation, with history)  *)
(*   variant = "remote" : src/unnamed/part_002, lines 1-517 (the build     *)
(*                        that calls the /encrypt and /decrypt service)    *)
(* together with the control surface that invokes their handlers           *)
(* (ActionButtons, UploadZone, HistoryPanel, the algorithm selector).      *)
(*                                                                         *)
(* React state is one variable per useState cell.  An async handler reads  *)
(* the state through the closure of the render in which it was invoked, so *)
(* every operation in flight carries the values it captured (ops[i]);      *)
(* its setState calls act on the current state.                            *)
(*                                                                         *)
(* Optional values (T | null) are sequences: <<>> is null, <<v>> is v.     *)
(* Math.random() is drawn from Rand, in thousandths.  Durations and the    *)
(* fidelity score are kept in thousandths, the similarity score in         *)
(* hundred-thousandths.                                                    *)
(***************************************************************************)
EXTENDS Integers, Sequences, FiniteSets, TLC

VARIABLES
  variant,            \* which build of the component is running
  uploadedImage,      \* File | null
  selectedAlgorithm,  \* EncryptionAlgorithm
  originalImageUrl,   \* string | null
  encryptedImageUrl,  \* string | null
  decryptedImageUrl,  \* string | null
  metrics,            \* MetricsData | null
  isProcessing,       \* boolean
  hasEncrypted,       \* boolean
  progress,           \* number
  history,            \* HistoryItem[]
  errorState,         \* ErrorState | null
  passphrase,         \* string (remote build)
  lsbMessage,         \* string (remote build)
  decryptedMessage,   \* string | null (remote build)
  ops,                \* the async handler invocations that have not returned
  now,                \* the value Date.now() returns
  nextBlob,           \* number of the next URL.createObjectURL result
  intents,            \* number of user intents that reached a handler
  emitted,            \* the values passed to setProgress, up to its resolution,
                      \* by the transform in flight or else by the last one
  imageData           \* the ImageData the for loop of processBatch works on,
                      \* and the loop variable i (followed in SpecPixel only)

vars == <<variant, uploadedImage, selectedAlgorithm, originalImageUrl,
          encryptedImageUrl, decryptedImageUrl, metrics, isProcessing,
          hasEncrypted, progress, history, errorState, passphrase, lsbMessage,
          decryptedMessage, ops, now, nextBlob, intents, emitted, imageData>>

(***************************************************************************)
(* Bounds of the model.                                                    *)
(***************************************************************************)
MaxIntents == 5      \* user intents handled in one run
MaxClock == 1        \* how far Date.now() advances in one run

(***************************************************************************)
(* Values.                                                                 *)
(***************************************************************************)
Null == <<>>

\* no ImageData is followed
NoImageData == [data |-> <<>>, i |-> 0]
Some(v) == <<v>>
Val(o) == o[1]

Min(a, b) == IF a < b THEN a ELSE b
Max(a, b) == IF a < b THEN b ELSE a

Variants == {"local", "remote"}

EncryptionAlgorithm == {"aes", "blowfish", "lsb", "chaos", "hybrid"}

\* the selectors the modelled user picks from
AlgorithmChoices == {"aes", "lsb"}

\* the value of Math.random() the workflow draws, in thousandths
Rand == {999}

validTypes == {"image/jpeg", "image/png", "image/bmp"}

maxSize == 10 * 1024 * 1024

HistoryLimit == 10

\* the files the modelled user offers
FileA == [name |-> "a.jpg", type |-> "image/jpeg", size |-> maxSize, pixels |-> 2500]
FileEnc == [name |-> "encrypted_c.png", type |-> "image/png", size |-> 4096, pixels |-> 500]
FileGif == [name |-> "d.gif", type |-> "image/gif", size |-> 2048, pixels |-> 500]
FileBig == [name |-> "f.png", type |-> "image/png", size |-> maxSize + 1, pixels |-> 2500]

Files == {FileA, FileEnc, FileGif, FileBig}

\* String.prototype.startsWith
startsWith(str, prefix) ==
  Len(str) >= Len(prefix) /\ SubSeq(str, 1, Len(prefix)) = prefix

createObjectURL(n) == "blob:" \o ToString(n)

RemoveAt(s, i) == SubSeq(s, 1, i - 1) \o SubSeq(s, i + 1, Len(s))

\* a user intent that reaches a handler
Intent == intents < MaxIntents /\ intents' = intents + 1

Init ==
  /\ variant \in Variants
  /\ uploadedImage = Null
  /\ selectedAlgorithm = "aes"
  /\ originalImageUrl = Null
  /\ encryptedImageUrl = Null
  /\ decryptedImageUrl = Null
  /\ metrics = Null
  /\ isProcessing = FALSE
  /\ hasEncrypted = FALSE
  /\ progress = 0
  /\ history = <<>>
  /\ errorState = Null
  /\ passphrase = ""
  /\ lsbMessage = ""
  /\ decryptedMessage = Null
  /\ ops = <<>>
  /\ now = 0
  /\ nextBlob = 1
  /\ intents = 0
  /\ emitted = <<>>
  /\ imageData = NoImageData


(***************************************************************************)
(* Messages shown in the ErrorMessage banner.                              *)
(***************************************************************************)
Message(t, m, d) == Some([type |-> t, message |-> m, details |-> d])

toUpperCase(a) ==
  CASE a = "aes" -> "AES"
    [] a = "blowfish" -> "BLOWFISH"
    [] a = "lsb" -> "LSB"
    [] a = "chaos" -> "CHAOS"
    [] a = "hybrid" -> "HYBRID"

\* a plausible slip: a file of exactly maxSize bytes is turned down
validateFile_RejectsAtLimit(file) ==
  IF file.type \notin validTypes
  THEN Message("error", "Invalid file type",
               "Please upload a JPG, PNG, or BMP image file.")
  ELSE IF file.size >= maxSize
  THEN Message("error", "File too large",
               "Please upload an image smaller than 10MB.")
  ELSE Null

(***************************************************************************)
(* validateFile: the message it sets, or Null when the file is accepted.   *)
(***************************************************************************)
validateFile(file) ==
  IF file.type \notin validTypes
  THEN Message("error", "Invalid file type",
               "Please upload a JPG, PNG, or BMP image file.")
  ELSE IF file.size > maxSize
  THEN Message("error", "File too large",
               "Please upload an image smaller than 10MB.")
  ELSE Null

(***************************************************************************)
(* UploadZone.handleFileSelect followed by handleImageUpload.              *)
(***************************************************************************)
handleImageUpload(file) ==
  IF validateFile(file) # Null
  THEN /\ errorState' = validateFile(file)
       /\ Intent
       /\ UNCHANGED <<uploadedImage, originalImageUrl, encryptedImageUrl,
                      decryptedImageUrl, metrics, hasEncrypted, progress,
                      nextBlob>>
  ELSE /\ IF variant = "remote" /\ startsWith(file.name, "encrypted_")
          THEN /\ uploadedImage' = Null
               /\ encryptedImageUrl' = Some(createObjectURL(nextBlob))
               /\ decryptedImageUrl' = Null
               /\ originalImageUrl' = Null
               /\ hasEncrypted' = TRUE
          ELSE /\ uploadedImage' = Some(file)
               /\ originalImageUrl' = Some(createObjectURL(nextBlob))
               /\ encryptedImageUrl' = Null
               /\ decryptedImageUrl' = Null
               /\ hasEncrypted' = FALSE
       /\ nextBlob' = nextBlob + 1
       /\ metrics' = Null
       /\ progress' = 0
       /\ errorState' = Null
       /\ Intent

handleFileSelect(file) ==
  /\ IF file.type \in validTypes
     THEN handleImageUpload(file)
     ELSE \* toast.error only
          UNCHANGED <<uploadedImage, originalImageUrl, encryptedImageUrl,
                      decryptedImageUrl, metrics, hasEncrypted, progress,
                      errorState, nextBlob, intents>>
  /\ UNCHANGED <<imageData, variant, selectedAlgorithm, isProcessing, history, passphrase,
                 lsbMessage, decryptedMessage, ops, now, emitted>>

Upload == \E file \in Files : handleFileSelect(file)

\* a plausible slip: the reset forgets setHasEncrypted(false)
handleReset_KeepsHasEncrypted ==
  /\ uploadedImage' = Null
  /\ originalImageUrl' = Null
  /\ encryptedImageUrl' = Null
  /\ decryptedImageUrl' = Null
  /\ metrics' = Null
  /\ UNCHANGED hasEncrypted
  /\ selectedAlgorithm' = "aes"
  /\ progress' = 0
  /\ errorState' = Null
  /\ IF variant = "remote"
     THEN passphrase' = "" /\ lsbMessage' = ""
     ELSE UNCHANGED <<passphrase, lsbMessage>>
  /\ Intent
  /\ UNCHANGED <<imageData, variant, isProcessing, history, decryptedMessage, ops, now,
                 nextBlob, emitted>>

\* a plausible slip: the reset also empties the history list
handleReset_ClearsHistory ==
  /\ uploadedImage' = Null
  /\ originalImageUrl' = Null
  /\ encryptedImageUrl' = Null
  /\ decryptedImageUrl' = Null
  /\ metrics' = Null
  /\ hasEncrypted' = FALSE
  /\ selectedAlgorithm' = "aes"
  /\ progress' = 0
  /\ errorState' = Null
  /\ history' = <<>>
  /\ IF variant = "remote"
     THEN passphrase' = "" /\ lsbMessage' = ""
     ELSE UNCHANGED <<passphrase, lsbMessage>>
  /\ Intent
  /\ UNCHANGED <<imageData, variant, isProcessing, decryptedMessage, ops, now,
                 nextBlob, emitted>>

(***************************************************************************)
(* handleReset.                                                            *)
(***************************************************************************)
handleReset ==
  /\ uploadedImage' = Null
  /\ originalImageUrl' = Null
  /\ encryptedImageUrl' = Null
  /\ decryptedImageUrl' = Null
  /\ metrics' = Null
  /\ hasEncrypted' = FALSE
  /\ selectedAlgorithm' = "aes"
  /\ progress' = 0
  /\ errorState' = Null
  /\ IF variant = "remote"
     THEN passphrase' = "" /\ lsbMessage' = ""
     ELSE UNCHANGED <<passphrase, lsbMessage>>
  /\ Intent
  /\ UNCHANGED <<imageData, variant, isProcessing, history, decryptedMessage, ops, now,
                 nextBlob, emitted>>

(***************************************************************************)
(* handleHistorySelect, invoked by HistoryPanel with an item of the list.  *)
(***************************************************************************)
handleHistorySelect(item) ==
  /\ IF item.encryptedUrl # Null
     THEN encryptedImageUrl' = item.encryptedUrl /\ hasEncrypted' = TRUE
     ELSE UNCHANGED <<encryptedImageUrl, hasEncrypted>>
  /\ IF item.decryptedUrl # Null
     THEN decryptedImageUrl' = item.decryptedUrl
     ELSE UNCHANGED decryptedImageUrl
  /\ IF item.metrics # Null
     THEN metrics' = item.metrics
     ELSE UNCHANGED metrics
  /\ selectedAlgorithm' = item.algorithm
  /\ Intent
  /\ UNCHANGED <<imageData, variant, uploadedImage, originalImageUrl, isProcessing,
                 progress, history, errorState, passphrase, lsbMessage,
                 decryptedMessage, ops, now, nextBlob, emitted>>

HistorySelect == \E i \in DOMAIN history : handleHistorySelect(history[i])

(***************************************************************************)
(* The selector, the two text inputs and the banner's dismiss button.      *)
(***************************************************************************)
setSelectedAlgorithm ==
  \E a \in AlgorithmChoices :
    /\ a # selectedAlgorithm
    /\ selectedAlgorithm' = a
    /\ Intent
    /\ UNCHANGED <<imageData, variant, uploadedImage, originalImageUrl, encryptedImageUrl,
                   decryptedImageUrl, metrics, isProcessing, hasEncrypted,
                   progress, history, errorState, passphrase, lsbMessage,
                   decryptedMessage, ops, now, nextBlob, emitted>>

Passphrases == {"", "k"}

LsbMessages == {"", "hello"}

setPassphrase ==
  \E p \in Passphrases :
    /\ variant = "remote"
    /\ selectedAlgorithm # "lsb"
    /\ p # passphrase
    /\ passphrase' = p
    /\ Intent
    /\ UNCHANGED <<imageData, variant, uploadedImage, selectedAlgorithm, originalImageUrl,
                   encryptedImageUrl, decryptedImageUrl, metrics, isProcessing,
                   hasEncrypted, progress, history, errorState, lsbMessage,
                   decryptedMessage, ops, now, nextBlob, emitted>>

setLsbMessage ==
  \E m \in LsbMessages :
    /\ variant = "remote"
    /\ selectedAlgorithm = "lsb"
    /\ m # lsbMessage
    /\ lsbMessage' = m
    /\ Intent
    /\ UNCHANGED <<imageData, variant, uploadedImage, selectedAlgorithm, originalImageUrl,
                   encryptedImageUrl, decryptedImageUrl, metrics, isProcessing,
                   hasEncrypted, progress, history, errorState, passphrase,
                   decryptedMessage, ops, now, nextBlob, emitted>>

onDismiss ==
  /\ errorState # Null
  /\ errorState' = Null
  /\ Intent
  /\ UNCHANGED <<imageData, variant, uploadedImage, selectedAlgorithm, originalImageUrl,
                 encryptedImageUrl, decryptedImageUrl, metrics, isProcessing,
                 hasEncrypted, progress, history, passphrase, lsbMessage,
                 decryptedMessage, ops, now, nextBlob, emitted>>

(***************************************************************************)
(* The clock behind Date.now().                                            *)
(***************************************************************************)
Tick ==
  /\ now < MaxClock
  /\ now' = now + 1
  /\ UNCHANGED <<imageData, variant, uploadedImage, selectedAlgorithm, originalImageUrl,
                 encryptedImageUrl, decryptedImageUrl, metrics, isProcessing,
                 hasEncrypted, progress, history, errorState, passphrase,
                 lsbMessage, decryptedMessage, ops, nextBlob, intents, emitted>>


(***************************************************************************)
(* ActionButtons: the props the dashboard passes and the disabled          *)
(* attribute of the two transform buttons.                                 *)
(***************************************************************************)
canEncrypt ==
  IF variant = "remote"
  THEN uploadedImage # Null /\ (selectedAlgorithm # "aes" \/ passphrase # "")
  ELSE uploadedImage # Null

canDecrypt ==
  IF variant = "remote"
  THEN hasEncrypted /\ (selectedAlgorithm # "aes" \/ passphrase # "")
  ELSE hasEncrypted

\* a plausible slip: the button is not disabled while a transform runs
EncryptDisabled_IgnoresProcessing == ~canEncrypt

EncryptDisabled == ~canEncrypt \/ isProcessing

\* a plausible slip: the button is enabled before any forward result exists
DecryptDisabled_IgnoresCanDecrypt == isProcessing

DecryptDisabled == ~canDecrypt \/ isProcessing

(***************************************************************************)
(* An invocation of an async handler: what its closure captured and where  *)
(* it is suspended.                                                        *)
(***************************************************************************)
Invocation(k, p) ==
  [kind |-> k, pc |-> p,
   file |-> uploadedImage, origUrl |-> originalImageUrl,
   encUrl |-> encryptedImageUrl, alg |-> selectedAlgorithm,
   metrics |-> metrics, passphrase |-> passphrase, lsbMessage |-> lsbMessage,
   startTime |-> now, processedPixels |-> 0, currentProgress |-> 0,
   \* the index ranges <<from, to>> (to excluded) of the pixels rewritten by
   \* the for loop of processBatch, one range for each call, with the
   \* value of selectedAlgorithm the loop tested
   mutated |-> <<>>]

\* Array.prototype.slice(a, b) of a sequence
slice(s, a, b) == SubSeq(s, a + 1, Min(b, Len(s)))

\* a plausible slip: the list is never truncated
record_NoEviction(item, prev) == <<item>> \o prev

\* a plausible slip: the new record is put last
record_Appends(item, prev) == slice(prev, 0, HistoryLimit - 1) \o <<item>>

\* setHistory(prev => [item, ...prev.slice(0, 9)])
record(item, prev) == <<item>> \o slice(prev, 0, HistoryLimit - 1)

(***************************************************************************)
(* generateMetrics, with the four Math.random() draws as arguments.        *)
(***************************************************************************)
generateMetrics(alg, r1, r2, r3, r4) ==
  LET baseEncryption == IF alg = "lsb" THEN 50 ELSE IF alg = "aes" THEN 200 ELSE 150
  IN [encryptionTime |-> baseEncryption * 1000 + r1 * 100,
      decryptionTime |-> baseEncryption * 800 + r2 * 80,
      psnr |-> IF alg = "lsb" THEN 45000 + r3 * 10 ELSE 25000 + r3 * 15,
      ssim |-> IF alg = "lsb" THEN 95000 + r4 * 4 ELSE 70000 + r4 * 20]

(***************************************************************************)
(* Local build: handleEncrypt up to its await.                             *)
(***************************************************************************)
handleEncrypt ==
  IF uploadedImage = Null \/ originalImageUrl = Null
  THEN UNCHANGED <<isProcessing, progress, errorState, ops, intents, emitted>>
  ELSE /\ Intent
       /\ isProcessing' = TRUE
       /\ progress' = 0
       /\ emitted' = <<0>>
       /\ errorState' = Null
       /\ ops' = Append(ops, Invocation("encrypt", "load"))

\* a plausible slip: the finally block does not put the progress back to 0
EncryptCatch_KeepsProgress(i, msg) ==
  /\ errorState' = Message("error", "Encryption failed", msg)
  /\ isProcessing' = FALSE
  /\ ops' = RemoveAt(ops, i)
  /\ UNCHANGED <<imageData, variant, uploadedImage, selectedAlgorithm, originalImageUrl,
                 encryptedImageUrl, decryptedImageUrl, metrics, hasEncrypted,
                 progress, history, passphrase, lsbMessage, decryptedMessage,
                 now, nextBlob, intents, emitted>>

(***************************************************************************)
(* Local build: the catch and finally blocks of handleEncrypt.             *)
(***************************************************************************)
EncryptCatch(i, msg) ==
  /\ errorState' = Message("error", "Encryption failed", msg)
  /\ isProcessing' = FALSE
  /\ progress' = 0
  /\ ops' = RemoveAt(ops, i)
  /\ UNCHANGED <<imageData, variant, uploadedImage, selectedAlgorithm, originalImageUrl,
                 encryptedImageUrl, decryptedImageUrl, metrics, hasEncrypted,
                 history, passphrase, lsbMessage, decryptedMessage, now,
                 nextBlob, intents, emitted>>

(***************************************************************************)
(* Local build: the rest of the try block of handleEncrypt, run when       *)
(* simulateProgressiveEncryption resolves with a new object URL.           *)
(***************************************************************************)
EncryptResolved(i) ==
  \E r1 \in Rand, r2 \in Rand, r3 \in Rand, r4 \in Rand :
    LET op == ops[i]
        encryptedUrl == createObjectURL(nextBlob)
        encryptionTime == (now - op.startTime) * 1000
        newMetrics == [generateMetrics(op.alg, r1, r2, r3, r4)
                         EXCEPT !.encryptionTime = encryptionTime]
        historyItem == [id |-> ToString(now),
                        originalName |-> Val(op.file).name,
                        algorithm |-> op.alg,
                        timestamp |-> now,
                        encryptedUrl |-> Some(encryptedUrl),
                        encryptedFilename |-> Null,
                        decryptedUrl |-> Null,
                        metrics |-> Some(newMetrics)]
    IN /\ encryptedImageUrl' = Some(encryptedUrl)
       /\ hasEncrypted' = TRUE
       /\ metrics' = Some(newMetrics)
       /\ history' = record(historyItem, history)
       /\ errorState' = Message("success", "Encryption completed successfully!",
                                "Processed in " \o ToString(encryptionTime \div 1000)
                                  \o "ms using " \o toUpperCase(op.alg))
       /\ isProcessing' = FALSE
       /\ progress' = 0
       /\ ops' = RemoveAt(ops, i)
       /\ nextBlob' = nextBlob + 1
       /\ UNCHANGED <<imageData, variant, uploadedImage, selectedAlgorithm,
                      originalImageUrl, decryptedImageUrl, passphrase,
                      lsbMessage, decryptedMessage, now, intents, emitted>>

(***************************************************************************)
(* Local build: simulateProgressiveEncryption.  processBatch handles one   *)
(* chunk of pixels; of the percentage the integer part is kept (the image  *)
(* sizes of Files make it integral).                                       *)
(***************************************************************************)
\* a plausible slip: no floor of 1000 pixels under the size of a batch
batchSize_NoFloor(totalPixels) == totalPixels \div 20

batchSize(totalPixels) == Max(1000, totalPixels \div 20)

\* a plausible slip: the end of the batch is not clamped to the pixel count
processBatch_NoClamp(i) ==
  LET op == ops[i]
      totalPixels == Val(op.file).pixels
      endIndex == op.processedPixels + batchSize(totalPixels)
  IN /\ progress' = (endIndex * 100) \div totalPixels
     /\ emitted' = Append(emitted, (endIndex * 100) \div totalPixels)
     /\ ops' = [ops EXCEPT ![i].processedPixels = endIndex,
                           ![i].mutated = Append(@, <<op.processedPixels, endIndex, op.alg>>),
                           ![i].pc = IF endIndex < totalPixels
                                     THEN "batch" ELSE "blob"]
     /\ UNCHANGED <<imageData, variant, uploadedImage, selectedAlgorithm, originalImageUrl,
                    encryptedImageUrl, decryptedImageUrl, metrics, isProcessing,
                    hasEncrypted, history, errorState, passphrase, lsbMessage,
                    decryptedMessage, now, nextBlob, intents>>

\* a plausible slip: the loop reads the selector of the latest render (as
\* through a ref) instead of the one its closure captured
processBatch_ReadsSelector(i) ==
  LET op == ops[i]
      totalPixels == Val(op.file).pixels
      endIndex == Min(op.processedPixels + batchSize(totalPixels), totalPixels)
  IN /\ progress' = (endIndex * 100) \div totalPixels
     /\ emitted' = Append(emitted, (endIndex * 100) \div totalPixels)
     /\ ops' = [ops EXCEPT ![i].processedPixels = endIndex,
                           ![i].mutated = Append(@, <<op.processedPixels, endIndex, selectedAlgorithm>>),
                           ![i].pc = IF endIndex < totalPixels
                                     THEN "batch" ELSE "blob"]
     /\ UNCHANGED <<imageData, variant, uploadedImage, selectedAlgorithm, originalImageUrl,
                    encryptedImageUrl, decryptedImageUrl, metrics, isProcessing,
                    hasEncrypted, history, errorState, passphrase, lsbMessage,
                    decryptedMessage, now, nextBlob, intents>>

processBatch(i) ==
  LET op == ops[i]
      totalPixels == Val(op.file).pixels
      endIndex == Min(op.processedPixels + batchSize(totalPixels), totalPixels)
  IN /\ progress' = (endIndex * 100) \div totalPixels
     /\ emitted' = Append(emitted, (endIndex * 100) \div totalPixels)
     /\ ops' = [ops EXCEPT ![i].processedPixels = endIndex,
                           ![i].mutated = Append(@, <<op.processedPixels, endIndex, op.alg>>),
                           ![i].pc = IF endIndex < totalPixels
                                     THEN "batch" ELSE "blob"]
     /\ UNCHANGED <<imageData, variant, uploadedImage, selectedAlgorithm, originalImageUrl,
                    encryptedImageUrl, decryptedImageUrl, metrics, isProcessing,
                    hasEncrypted, history, errorState, passphrase, lsbMessage,
                    decryptedMessage, now, nextBlob, intents>>

\* img.onerror fires, or img.onload with or without a 2d context
ImageOutcomes == {"onerror", "noContext", "onload"}

\* img.onload / img.onerror
ImageLoaded(i, outcome) ==
  /\ variant = "local"
  /\ ops[i].kind = "encrypt"
  /\ ops[i].pc = "load"
  /\   CASE outcome = "onerror" -> EncryptCatch(i, "Failed to load image")
         [] outcome = "noContext" ->
              \* getContext('2d') returned null: the promise is never settled
              /\ ops' = [ops EXCEPT ![i].pc = "hung"]
              /\ UNCHANGED <<imageData, variant, uploadedImage, selectedAlgorithm,
                             originalImageUrl, encryptedImageUrl,
                             decryptedImageUrl, metrics, isProcessing,
                             hasEncrypted, progress, history, errorState,
                             passphrase, lsbMessage, decryptedMessage, now,
                             nextBlob, intents, emitted>>
         [] outcome = "onload" -> processBatch(i)

\* setTimeout(processBatch, 50)
BatchTimer(i) ==
  /\ variant = "local"
  /\ ops[i].kind = "encrypt"
  /\ ops[i].pc = "batch"
  /\ processBatch(i)

\* the callback of canvas.toBlob
ToBlobCallback(i, blob) ==
  /\ variant = "local"
  /\ ops[i].kind = "encrypt"
  /\ ops[i].pc = "blob"
  /\ IF blob
     THEN EncryptResolved(i)
     ELSE EncryptCatch(i, "Failed to create encrypted image")

(***************************************************************************)
(* Local build: handleDecrypt and simulateDecryption.                      *)
(***************************************************************************)
handleDecrypt ==
  IF encryptedImageUrl = Null
  THEN UNCHANGED <<isProcessing, progress, errorState, ops, intents, emitted>>
  ELSE /\ Intent
       /\ isProcessing' = TRUE
       /\ progress' = 0
       /\ emitted' = <<0>>
       /\ errorState' = Null
       /\ ops' = Append(ops, Invocation("decrypt", "interval"))

\* setHistory(prev => prev.map(item => item.encryptedUrl === url ? {...} : item))
update(prev, url, decryptedUrl, updatedMetrics) ==
  [k \in DOMAIN prev |->
     IF prev[k].encryptedUrl = url
     THEN [prev[k] EXCEPT !.decryptedUrl = decryptedUrl,
                          !.metrics = Some(updatedMetrics)]
     ELSE prev[k]]

\* the rest of the try block of handleDecrypt, and its finally block
DecryptResolved(i) ==
  LET op == ops[i]
      decryptedUrl == op.origUrl
      decryptionTime == (now - op.startTime) * 1000
      updatedMetrics == [Val(op.metrics) EXCEPT !.decryptionTime = decryptionTime]
  IN /\ decryptedImageUrl' = decryptedUrl
     /\ IF op.metrics # Null
        THEN /\ metrics' = Some(updatedMetrics)
             /\ history' = update(history, op.encUrl, decryptedUrl, updatedMetrics)
        ELSE UNCHANGED <<metrics, history>>
     /\ errorState' = Message("success", "Decryption completed successfully!",
                              "Restored in " \o ToString(decryptionTime \div 1000) \o "ms")
     /\ isProcessing' = FALSE
     /\ progress' = 0
     /\ ops' = RemoveAt(ops, i)
     /\ UNCHANGED <<imageData, variant, uploadedImage, selectedAlgorithm, originalImageUrl,
                    encryptedImageUrl, hasEncrypted, passphrase, lsbMessage,
                    decryptedMessage, now, nextBlob, intents>>

\* the setInterval callback of simulateDecryption
IntervalTick(i) ==
  /\ variant = "local"
  /\ ops[i].kind = "decrypt"
  /\ ops[i].pc = "interval"
  /\ LET currentProgress == ops[i].currentProgress + 10
     IN /\ emitted' = Append(emitted, currentProgress)
        /\ IF currentProgress >= 100
           THEN DecryptResolved(i)
           ELSE /\ progress' = currentProgress
                /\ ops' = [ops EXCEPT ![i].currentProgress = currentProgress]
                /\ UNCHANGED <<imageData, variant, uploadedImage, selectedAlgorithm,
                               originalImageUrl, encryptedImageUrl,
                               decryptedImageUrl, metrics, isProcessing,
                               hasEncrypted, history, errorState, passphrase,
                               lsbMessage, decryptedMessage, now, nextBlob,
                               intents>>


(***************************************************************************)
(* Remote build: the transform service.  A response is the parsed JSON     *)
(* body; absent fields are Null.  The service is outside the repository:   *)
(* which response arrives is not determined by the model.                  *)
(***************************************************************************)
API_URL == "http://localhost:5050"

NoData == [thrown |-> FALSE, error |-> Null, encrypted_image |-> Null, encrypted_file_url |-> Null,
           encrypted_filename |-> Null, decrypted_image |-> Null,
           decrypted_file_url |-> Null, decrypted_message |-> Null]

EncryptResponses ==
  { [NoData EXCEPT !.error = Some("Encryption error")],
    [NoData EXCEPT !.encrypted_file_url = Some("/files/encrypted_1.png"),
                   !.encrypted_filename = Some("encrypted_1.png")],
    [NoData EXCEPT !.encrypted_image = Some("RU5D")],
    NoData }

DecryptResponses ==
  { [NoData EXCEPT !.error = Some("Decryption error")],
    [NoData EXCEPT !.decrypted_file_url = Some("/files/decrypted_1.png")],
    [NoData EXCEPT !.decrypted_image = Some("REVD")],
    [NoData EXCEPT !.decrypted_message = Some("hello")],
    NoData }

\* fetch rejects or response.json() throws: there is no body
Thrown == [NoData EXCEPT !.thrown = TRUE]

\* `${...}` of an optional string
template(o) == IF o = Null THEN "undefined" ELSE Val(o)

\* a plausible slip: the handler starts without its setProgress(10)
handleEncryptApi_NoProgress ==
  IF uploadedImage = Null
  THEN /\ errorState' = Message("error", "No image uploaded", "")
       /\ Intent
       /\ UNCHANGED <<isProcessing, progress, ops, emitted>>
  ELSE /\ Intent
       /\ isProcessing' = TRUE
       /\ errorState' = Null
       /\ ops' = Append(ops, Invocation("encrypt", "read"))
       /\ emitted' = emitted
       /\ UNCHANGED progress

(***************************************************************************)
(* Remote build: handleEncrypt up to its first await.                      *)
(***************************************************************************)
handleEncryptApi ==
  IF uploadedImage = Null
  THEN /\ errorState' = Message("error", "No image uploaded", "")
       /\ Intent
       /\ UNCHANGED <<isProcessing, progress, ops, emitted>>
  ELSE /\ Intent
       /\ isProcessing' = TRUE
       /\ progress' = 10
       /\ emitted' = <<10>>
       /\ errorState' = Null
       /\ ops' = Append(ops, Invocation("encrypt", "read"))

\* the catch and finally blocks of the remote handleEncrypt
EncryptCatchApi(i, msg) ==
  /\ errorState' = Message("error", "Encryption failed", msg)
  /\ isProcessing' = FALSE
  /\ progress' = 0
  /\ ops' = RemoveAt(ops, i)
  /\ UNCHANGED <<imageData, variant, uploadedImage, selectedAlgorithm, originalImageUrl,
                 encryptedImageUrl, decryptedImageUrl, metrics, hasEncrypted,
                 history, passphrase, lsbMessage, decryptedMessage, now,
                 nextBlob, intents, emitted>>

\* fileToBase64 settles
FileRead(i, ok) ==
  /\ variant = "remote"
  /\ ops[i].kind = "encrypt"
  /\ ops[i].pc = "read"
  /\ IF ok
     THEN /\ progress' = 20
          /\ emitted' = Append(emitted, 20)
          /\ ops' = [ops EXCEPT ![i].pc = "fetch"]
          /\ UNCHANGED <<imageData, variant, uploadedImage, selectedAlgorithm,
                         originalImageUrl, encryptedImageUrl,
                         decryptedImageUrl, metrics, isProcessing,
                         hasEncrypted, history, errorState, passphrase,
                         lsbMessage, decryptedMessage, now, nextBlob, intents>>
     ELSE EncryptCatchApi(i, "Unknown error")

\* the metrics the remote handleEncrypt makes up, from three Math.random() draws
remoteMetrics(r1, r3, r4) ==
  [encryptionTime |-> r1 * 500 + 100000,
   decryptionTime |-> 0,
   psnr |-> 30000 + r3 * 10,
   ssim |-> 70000 + r4 * 30]

\* `if (data.error)`: the message is shown and the handler returns through finally
EncryptRejected(i, data) ==
  /\ errorState' = Message("error", Val(data.error), "")
  /\ isProcessing' = FALSE
  /\ progress' = 0
  /\ ops' = RemoveAt(ops, i)
  /\ UNCHANGED <<imageData, variant, uploadedImage, selectedAlgorithm, originalImageUrl,
                 encryptedImageUrl, decryptedImageUrl, metrics, hasEncrypted,
                 history, passphrase, lsbMessage, decryptedMessage, now,
                 nextBlob, intents, emitted>>

\* the rest of the try block of the remote handleEncrypt, and the finally block
EncryptAccepted(i, data) ==
  \E r1 \in Rand, r3 \in Rand, r4 \in Rand :
    LET op == ops[i]
        encryptedUrl == IF data.encrypted_file_url # Null
                        THEN API_URL \o Val(data.encrypted_file_url)
                        ELSE "data:image/png;base64," \o template(data.encrypted_image)
        newMetrics == remoteMetrics(r1, r3, r4)
        historyItem == [id |-> ToString(now),
                        originalName |-> Val(op.file).name,
                        algorithm |-> op.alg,
                        timestamp |-> now,
                        encryptedUrl |-> Some(encryptedUrl),
                        encryptedFilename |-> data.encrypted_filename,
                        decryptedUrl |-> Null,
                        metrics |-> Some(newMetrics)]
    IN /\ encryptedImageUrl' = Some(encryptedUrl)
       /\ hasEncrypted' = TRUE
       /\ originalImageUrl' = Null
       /\ metrics' = Some(newMetrics)
       /\ history' = record(historyItem, history)
       /\ isProcessing' = FALSE
       /\ progress' = 0
       /\ emitted' = Append(emitted, 100)
       /\ ops' = RemoveAt(ops, i)
       /\ UNCHANGED <<imageData, variant, uploadedImage, selectedAlgorithm,
                      decryptedImageUrl, errorState, passphrase, lsbMessage,
                      decryptedMessage, now, nextBlob, intents>>

\* a plausible slip: the error field of the response is not looked at
EncryptResponded_IgnoresError(i, data) == EncryptAccepted(i, data)

\* what follows `await apiEncrypt(...)`
EncryptResponded(i, data) ==
  IF data.error # Null
  THEN EncryptRejected(i, data)
  ELSE EncryptAccepted(i, data)

\* apiEncrypt settles: fetch or response.json() throws (Thrown), or a body arrives
ApiEncrypt(i, data) ==
  /\ variant = "remote"
  /\ ops[i].kind = "encrypt"
  /\ ops[i].pc = "fetch"
  /\ IF data = Thrown
     THEN EncryptCatchApi(i, "Failed to fetch")
     ELSE EncryptResponded(i, data)

(***************************************************************************)
(* Remote build: handleDecrypt.                                            *)
(***************************************************************************)
handleDecryptApi ==
  IF encryptedImageUrl = Null
  THEN /\ errorState' = Message("error", "No encrypted image to decrypt", "")
       /\ Intent
       /\ UNCHANGED <<isProcessing, progress, ops, emitted>>
  ELSE /\ Intent
       /\ isProcessing' = TRUE
       /\ progress' = 10
       /\ emitted' = <<10>>
       /\ errorState' = Null
       /\ ops' = Append(ops, Invocation("decrypt",
                    IF startsWith(Val(encryptedImageUrl), API_URL)
                    THEN "fetchFile" ELSE "fetch"))

\* the catch and finally blocks of the remote handleDecrypt
DecryptCatchApi(i, msg) ==
  /\ errorState' = Message("error", "Decryption failed", msg)
  /\ isProcessing' = FALSE
  /\ progress' = 0
  /\ ops' = RemoveAt(ops, i)
  /\ UNCHANGED <<imageData, variant, uploadedImage, selectedAlgorithm, originalImageUrl,
                 encryptedImageUrl, decryptedImageUrl, metrics, hasEncrypted,
                 history, passphrase, lsbMessage, decryptedMessage, now,
                 nextBlob, intents, emitted>>

\* fetch(encryptedImageUrl), response.blob() and the FileReader settle
FetchFile(i, ok) ==
  /\ variant = "remote"
  /\ ops[i].kind = "decrypt"
  /\ ops[i].pc = "fetchFile"
  /\ IF ok
     THEN /\ ops' = [ops EXCEPT ![i].pc = "fetch"]
          /\ UNCHANGED <<imageData, variant, uploadedImage, selectedAlgorithm,
                         originalImageUrl, encryptedImageUrl,
                         decryptedImageUrl, metrics, isProcessing,
                         hasEncrypted, progress, history, errorState,
                         passphrase, lsbMessage, decryptedMessage, now,
                         nextBlob, intents, emitted>>
     ELSE DecryptCatchApi(i, "Failed to fetch")

\* setMetrics(prev => prev ? { ...prev, decryptionTime: ... } : null)
withDecryptionTime(prev, r) ==
  IF prev # Null
  THEN Some([Val(prev) EXCEPT !.decryptionTime = r * 400 + 100000])
  ELSE Null

\* the rest of the try block after `await apiDecrypt(...)`, and the finally block
DecryptResponded(i, data) ==
  IF data.error # Null
  THEN /\ errorState' = Message("error", Val(data.error), "")
       /\ isProcessing' = FALSE
       /\ progress' = 0
       /\ ops' = RemoveAt(ops, i)
       /\ UNCHANGED <<imageData, variant, uploadedImage, selectedAlgorithm,
                      originalImageUrl, encryptedImageUrl, decryptedImageUrl,
                      metrics, hasEncrypted, history, passphrase, lsbMessage,
                      decryptedMessage, now, nextBlob, intents, emitted>>
  ELSE \E r \in Rand :
    LET op == ops[i]
        decryptedUrl == IF data.decrypted_file_url # Null
                        THEN API_URL \o Val(data.decrypted_file_url)
                        ELSE "data:image/png;base64," \o template(data.decrypted_image)
    IN /\ IF op.alg = "lsb"
          THEN /\ decryptedImageUrl' = op.encUrl
               /\ decryptedMessage' = data.decrypted_message
               /\ UNCHANGED originalImageUrl
          ELSE /\ decryptedImageUrl' = Some(decryptedUrl)
               /\ originalImageUrl' = Some(decryptedUrl)
               /\ UNCHANGED decryptedMessage
       /\ metrics' = withDecryptionTime(metrics, r)
       /\ isProcessing' = FALSE
       /\ progress' = 0
       /\ emitted' = Append(emitted, 100)
       /\ ops' = RemoveAt(ops, i)
       /\ UNCHANGED <<imageData, variant, uploadedImage, selectedAlgorithm,
                      encryptedImageUrl, hasEncrypted, history, errorState,
                      passphrase, lsbMessage, now, nextBlob, intents>>

\* apiDecrypt settles
ApiDecrypt(i, data) ==
  /\ variant = "remote"
  /\ ops[i].kind = "decrypt"
  /\ ops[i].pc = "fetch"
  /\ IF data = Thrown
     THEN DecryptCatchApi(i, "Failed to fetch")
     ELSE DecryptResponded(i, data)

(***************************************************************************)
(* The two transform buttons of ActionButtons.  A click on a disabled      *)
(* button reaches no handler.                                              *)
(***************************************************************************)
ClickEncrypt ==
  /\ IF EncryptDisabled
     THEN UNCHANGED <<isProcessing, progress, errorState, ops, intents,
                      emitted>>
     ELSE IF variant = "remote" THEN handleEncryptApi ELSE handleEncrypt
  /\ UNCHANGED <<imageData, variant, uploadedImage, selectedAlgorithm, originalImageUrl,
                 encryptedImageUrl, decryptedImageUrl, metrics, hasEncrypted,
                 history, passphrase, lsbMessage, decryptedMessage, now,
                 nextBlob>>

ClickDecrypt ==
  /\ IF DecryptDisabled
     THEN UNCHANGED <<isProcessing, progress, errorState, ops, intents,
                      emitted>>
     ELSE IF variant = "remote" THEN handleDecryptApi ELSE handleDecrypt
  /\ UNCHANGED <<imageData, variant, uploadedImage, selectedAlgorithm, originalImageUrl,
                 encryptedImageUrl, decryptedImageUrl, metrics, hasEncrypted,
                 history, passphrase, lsbMessage, decryptedMessage, now,
                 nextBlob>>

(***************************************************************************)
(* The specification.                                                      *)
(***************************************************************************)
Next ==
  \/ Upload
  \/ setSelectedAlgorithm
  \/ setPassphrase
  \/ setLsbMessage
  \/ ClickEncrypt
  \/ ClickDecrypt
  \/ handleReset
  \/ HistorySelect
  \/ onDismiss
  \/ Tick
  \/ \E i \in DOMAIN ops, outcome \in ImageOutcomes : ImageLoaded(i, outcome)
  \/ \E i \in DOMAIN ops : BatchTimer(i)
  \/ \E i \in DOMAIN ops, blob \in BOOLEAN : ToBlobCallback(i, blob)
  \/ \E i \in DOMAIN ops : IntervalTick(i)
  \/ \E i \in DOMAIN ops, ok \in BOOLEAN : FileRead(i, ok)
  \/ \E i \in DOMAIN ops, data \in EncryptResponses \cup {Thrown} : ApiEncrypt(i, data)
  \/ \E i \in DOMAIN ops, ok \in BOOLEAN : FetchFile(i, ok)
  \/ \E i \in DOMAIN ops, data \in DecryptResponses \cup {Thrown} : ApiDecrypt(i, data)

Spec == Init /\ [][Next]_vars

(***************************************************************************)
(* A session that has already recorded forward transforms: the history is  *)
(* one record short of its limit when the run begins.  PastRecord(k) is    *)
(* the record of the k-th most recent of them, as the build running would  *)
(* have written it, k clock units before the run begins.  The intents     *)
(* that made them have used a part of the budget of the run.               *)
(***************************************************************************)
PastRecord(k) ==
  [id |-> ToString(0 - k),
   originalName |-> FileA.name,
   algorithm |-> "aes",
   timestamp |-> 0 - k,
   encryptedUrl |-> IF variant = "remote"
                    THEN Some(API_URL \o "/files/encrypted_1.png")
                    ELSE Some(createObjectURL(0 - k)),
   encryptedFilename |-> IF variant = "remote"
                         THEN Some("encrypted_1.png") ELSE Null,
   decryptedUrl |-> Null,
   metrics |-> IF variant = "remote"
               THEN Some(remoteMetrics(999, 999, 999))
               ELSE Some([generateMetrics("aes", 999, 999, 999, 999)
                            EXCEPT !.encryptionTime = 0])]

InitFull ==
  /\ variant \in Variants
  /\ uploadedImage = Null
  /\ selectedAlgorithm = "aes"
  /\ originalImageUrl = Null
  /\ encryptedImageUrl = Null
  /\ decryptedImageUrl = Null
  /\ metrics = Null
  /\ isProcessing = FALSE
  /\ hasEncrypted = FALSE
  /\ progress = 0
  /\ history = [k \in 1..(HistoryLimit - 1) |-> PastRecord(k)]
  /\ errorState = Null
  /\ passphrase = ""
  /\ lsbMessage = ""
  /\ decryptedMessage = Null
  /\ ops = <<>>
  /\ now = 0
  /\ nextBlob = 1
  /\ intents = 2
  /\ emitted = <<>>
  /\ imageData = NoImageData

SpecFull == InitFull /\ [][Next]_vars

(***************************************************************************)
(* Vocabulary of the properties.                                           *)
(***************************************************************************)
\* the message of the snapshot is an error
IsError(e) == e # Null /\ Val(e).type = "error"

\* what a transform may produce: source, results, metrics, history
results == <<uploadedImage, originalImageUrl, encryptedImageUrl,
             decryptedImageUrl, metrics, hasEncrypted, decryptedMessage,
             history>>

\* the snapshot of a component that has just been mounted
IdleSnapshot ==
  /\ uploadedImage = Null
  /\ originalImageUrl = Null
  /\ encryptedImageUrl = Null
  /\ decryptedImageUrl = Null
  /\ metrics = Null
  /\ decryptedMessage = Null
  /\ errorState = Null
  /\ progress = 0
  /\ isProcessing = FALSE
  /\ hasEncrypted = FALSE

\* the step in which the forward transform ops[i] completes successfully
ForwardSucceeds(i) ==
  \/ ToBlobCallback(i, TRUE)
  \/ \E data \in EncryptResponses : data.error = Null /\ ApiEncrypt(i, data)

\* the step in which the reverse transform ops[i] completes successfully
ReverseSucceeds(i) ==
  \/ IntervalTick(i) /\ ops' = RemoveAt(ops, i)
  \/ \E data \in DecryptResponses : data.error = Null /\ ApiDecrypt(i, data)

\* the step in which the service answers ops[i] with an error field, or the
\* request fails in transport
RemoteFails(i) ==
  \/ ApiEncrypt(i, Thrown)
  \/ ApiDecrypt(i, Thrown)
  \/ FetchFile(i, FALSE)
  \/ \E data \in EncryptResponses : data.error # Null /\ ApiEncrypt(i, data)
  \/ \E data \in DecryptResponses : data.error # Null /\ ApiDecrypt(i, data)

\* the step in which the transform ops[i] fails
OperationFails(i) ==
  \/ ImageLoaded(i, "onerror")
  \/ ToBlobCallback(i, FALSE)
  \/ FileRead(i, FALSE)
  \/ RemoteFails(i)

(***************************************************************************)
(* C1: at most one transform (forward or reverse) is in flight at any      *)
(* time, and a click on Encrypt or Decrypt while isProcessing is true      *)
(* reaches no handler: it changes nothing, so the operation in flight      *)
(* keeps what it captured and ends as if the click had not been made.      *)
(***************************************************************************)
C1_OneTransformInFlight ==
  /\ [](Len(ops) <= 1)
  /\ [][isProcessing => ~ClickEncrypt /\ ~ClickDecrypt]_vars

\* a transform is in flight while both buttons would otherwise be enabled
C1_Witness ==
  /\ isProcessing
  /\ Len(ops) = 1
  /\ canEncrypt
  /\ canDecrypt

(***************************************************************************)
(* C2: handleReset, from any state, a transform in flight or not, yields   *)
(* the idle snapshot: no source, no results, no metrics, no recovered      *)
(* message, no message, progress 0, isProcessing false, hasEncrypted       *)
(* false.                                                                  *)
(***************************************************************************)
C2_ResetYieldsIdle == [][handleReset => IdleSnapshot']_vars

(***************************************************************************)
(* C3: after a reset made while a transform is in flight, no continuation  *)
(* of that transform changes the snapshot or the history.                  *)
(* ResetWithOpInFlight is the state such a reset leaves, for as long as no *)
(* user intent has changed it: only handleReset clears the source and the  *)
(* forward result together, and a transform starts with one of them set.   *)
(***************************************************************************)
ResetWithOpInFlight ==
  /\ ops # <<>>
  /\ uploadedImage = Null
  /\ originalImageUrl = Null
  /\ encryptedImageUrl = Null
  /\ decryptedImageUrl = Null
  /\ metrics = Null
  /\ errorState = Null
  /\ progress = 0
  /\ hasEncrypted = FALSE
  /\ selectedAlgorithm = "aes"
  /\ passphrase = ""
  /\ lsbMessage = ""

C3_ResetDropsContinuations ==
  [][(ResetWithOpInFlight /\ ops' # ops) =>
       UNCHANGED <<results, errorState, progress>>]_vars

(***************************************************************************)
(* C4: the history never holds more than 10 records, and when a forward    *)
(* transform completes while it holds 10, the last (oldest) record is      *)
(* dropped and the other 9 follow the new record in their previous order.  *)
(***************************************************************************)
C4_HistoryBounded ==
  /\ [](Len(history) <= HistoryLimit)
  /\ [][\A i \in DOMAIN ops :
          (ForwardSucceeds(i) /\ Len(history) = HistoryLimit) =>
             /\ Len(history') = HistoryLimit
             /\ \A k \in 1..(HistoryLimit - 1) : history'[k + 1] = history[k]]_vars

\* two insertions into a history of 9: the oldest record is gone, and the
\* second oldest is now the last
C4_Witness ==
  /\ Len(history) = HistoryLimit
  /\ history[HistoryLimit] = PastRecord(HistoryLimit - 2)
  /\ history[3] = PastRecord(1)
  /\ history[1].timestamp >= 0
  /\ history[2].timestamp >= 0

C7_RemoteFailureIsRecoverable ==
  [][\A i \in DOMAIN ops :
       RemoteFails(i) =>
          /\ IsError(errorState')
          /\ isProcessing' = FALSE
          /\ ops' = RemoveAt(ops, i)
          /\ UNCHANGED <<history, encryptedImageUrl, decryptedImageUrl,
                         hasEncrypted>>]_vars

\* the service has refused a forward request after an earlier one succeeded
C7_Witness ==
  /\ variant = "remote"
  /\ errorState = Message("error", "Encryption error", "")
  /\ history # <<>>
  /\ encryptedImageUrl # Null
  /\ ~isProcessing

(***************************************************************************)
(* C8: when a forward transform completes successfully, one new record is  *)
(* put first in the history and the earlier records follow it in order;    *)
(* the record carries the name of the source and the algorithm the         *)
(* transform started with, and the forward result and the metrics the      *)
(* snapshot now shows; hasEncrypted is true; from an empty history the     *)
(* length becomes 1.                                                       *)
(***************************************************************************)
C8_ForwardSuccessRecords ==
  [][\A i \in DOMAIN ops :
       ForwardSucceeds(i) =>
          /\ Len(history') = Min(Len(history) + 1, HistoryLimit)
          /\ \A k \in 2..Len(history') : history'[k] = history[k - 1]
          /\ history'[1].originalName = Val(ops[i].file).name
          /\ history'[1].algorithm = ops[i].alg
          /\ encryptedImageUrl' # Null
          /\ history'[1].encryptedUrl = encryptedImageUrl'
          /\ metrics' # Null
          /\ history'[1].metrics = metrics'
          /\ hasEncrypted' = TRUE
          /\ (history = <<>> => Len(history') = 1)]_vars

\* a second forward transform has been recorded in front of the first
C8_Witness ==
  /\ Len(history) = 2
  /\ hasEncrypted
  /\ history[1].encryptedUrl = encryptedImageUrl
  /\ history[1].metrics = metrics
  /\ history[1].algorithm # history[2].algorithm
  /\ ops = <<>>

(***************************************************************************)
(* C9: when a reverse transform completes successfully, every record whose *)
(* forward result is the one that was reversed receives the reverse result *)
(* and the metrics the snapshot now shows; no record moves and every other *)
(* record is unchanged.                                                    *)
(***************************************************************************)
C9_ReverseSuccessUpdatesRecord ==
  [][\A i \in DOMAIN ops :
       ReverseSucceeds(i) =>
          /\ Len(history') = Len(history)
          /\ \A k \in DOMAIN history :
               IF history[k].encryptedUrl = ops[i].encUrl
               THEN /\ history'[k].decryptedUrl = decryptedImageUrl'
                    /\ history'[k].metrics = metrics'
                    /\ history'[k].id = history[k].id
               ELSE history'[k] = history[k]]_vars

(***************************************************************************)
(* C10: handleHistorySelect starts no transform and makes the forward      *)
(* result, the reverse result, the metrics and the algorithm of the        *)
(* snapshot those of the record: the reverse result is absent afterwards   *)
(* when the record has none.                                               *)
(***************************************************************************)
C10_SelectOverwritesSnapshot ==
  [][\A k \in DOMAIN history :
       handleHistorySelect(history[k]) =>
          /\ encryptedImageUrl' = history[k].encryptedUrl
          /\ decryptedImageUrl' = history[k].decryptedUrl
          /\ metrics' = history[k].metrics
          /\ selectedAlgorithm' = history[k].algorithm
          /\ UNCHANGED <<ops, isProcessing, progress>>]_vars

(***************************************************************************)
(* C11: in the remote build a forward request made while the secondary     *)
(* input is empty (the message when the selector is lsb, the passphrase    *)
(* otherwise) starts nothing: no invocation, isProcessing and the history  *)
(* unchanged, and a validation error on the snapshot.                      *)
(***************************************************************************)
SecondaryInputEmpty ==
  IF selectedAlgorithm = "lsb" THEN lsbMessage = "" ELSE passphrase = ""

C11_EmptySecondaryInputRejected ==
  [][(variant = "remote" /\ SecondaryInputEmpty /\ ClickEncrypt) =>
       /\ ops' = ops
       /\ isProcessing' = isProcessing
       /\ history' = history
       /\ IsError(errorState')]_vars

(***************************************************************************)
(* C12: no two records of the history have the same id.                    *)
(***************************************************************************)
C12_UniqueIds ==
  \A j \in DOMAIN history : \A k \in DOMAIN history :
    j # k => history[j].id # history[k].id

(***************************************************************************)
(* C13, as amended: the step in which a transform enters in-progress sets  *)
(* progress to the starting value of the build, 0 in the local build and   *)
(* 10 in the remote build, whatever it was before.                         *)
(***************************************************************************)
C13_ProgressAtStart ==
  [][(~isProcessing /\ isProcessing') =>
       progress' = IF variant = "remote" THEN 10 ELSE 0]_vars

\* a second transform of the remote build has just started
C13_Witness ==
  /\ variant = "remote"
  /\ isProcessing
  /\ Len(ops) = 1
  /\ ops[1].pc \in {"read", "fetch", "fetchFile"}
  /\ progress = 10
  /\ history # <<>>

\* C13 as the specification words it: progress is 0 when a transform starts
C13_ProgressResetToZero ==
  [][(~isProcessing /\ isProcessing') => progress' = 0]_vars

(***************************************************************************)
(* C14: the values a transform passes to setProgress from its start to     *)
(* its resolution never decrease and stay within 0..100, and the last one  *)
(* before a transform resolves successfully is 100.  (The setProgress(0)   *)
(* of the finally block comes after the resolution.)                       *)
(***************************************************************************)
NonDecreasing(s) == \A k \in 1..(Len(s) - 1) : s[k] <= s[k + 1]

keyToSend_AlwaysPassphrase(op) == op.passphrase

\* const keyToSend = selectedAlgorithm === 'lsb' ? lsbMessage : passphrase
keyToSend(op) == IF op.alg = "lsb" THEN op.lsbMessage ELSE op.passphrase

\* str.split(',')[1]: Null stands for undefined
base64Data(str) ==
  LET commas == {k \in 1..Len(str) : SubSeq(str, k, k) = ","}
      least(S) == CHOOSE x \in S : \A y \in S : x <= y
  IN IF commas = {}
     THEN Null
     ELSE LET a == least(commas)
              rest == commas \ {a}
              b == IF rest = {} THEN Len(str) + 1 ELSE least(rest)
          IN Some(SubSeq(str, a + 1, b - 1))

\* the image the service makes to carry a message, as base64 text
Embed(m) == "lsb:" \o m

\* the message carried by the image of a /decrypt request, if any
Extract(payload) ==
  IF payload # Null /\ startsWith(Val(payload), "lsb:")
  THEN Some(SubSeq(Val(payload), 5, Len(Val(payload))))
  ELSE Null

\* the encrypted_image field of a /decrypt request (none for an invocation
\* that makes no such request); the content of a file fetched from the
\* service carries no message
encryptedBase64(op) ==
  IF op.encUrl = Null \/ startsWith(Val(op.encUrl), API_URL)
  THEN Null
  ELSE base64Data(Val(op.encUrl))

TrueInverseEncrypt(op) ==
  [NoData EXCEPT !.encrypted_image = Some(Embed(keyToSend(op)))]

TrueInverseDecrypt(op) ==
  [NoData EXCEPT !.decrypted_message = Extract(encryptedBase64(op))]

ServiceEncryptResponses(op) ==
  IF op.alg = "lsb"
  THEN {[NoData EXCEPT !.error = Some("Encryption error")],
        TrueInverseEncrypt(op)}
  ELSE EncryptResponses

ServiceDecryptResponses(op) ==
  IF op.alg = "lsb"
  THEN {[NoData EXCEPT !.error = Some("Decryption error")],
        TrueInverseDecrypt(op)}
  ELSE DecryptResponses

NextInverse ==
  \/ Upload
  \/ setSelectedAlgorithm
  \/ setPassphrase
  \/ setLsbMessage
  \/ ClickEncrypt
  \/ ClickDecrypt
  \/ handleReset
  \/ HistorySelect
  \/ onDismiss
  \/ Tick
  \/ \E i \in DOMAIN ops, outcome \in ImageOutcomes : ImageLoaded(i, outcome)
  \/ \E i \in DOMAIN ops : BatchTimer(i)
  \/ \E i \in DOMAIN ops, blob \in BOOLEAN : ToBlobCallback(i, blob)
  \/ \E i \in DOMAIN ops : IntervalTick(i)
  \/ \E i \in DOMAIN ops, ok \in BOOLEAN : FileRead(i, ok)
  \/ \E i \in DOMAIN ops :
       \E data \in ServiceEncryptResponses(ops[i]) \cup {Thrown} : ApiEncrypt(i, data)
  \/ \E i \in DOMAIN ops, ok \in BOOLEAN : FetchFile(i, ok)
  \/ \E i \in DOMAIN ops :
       \E data \in ServiceDecryptResponses(ops[i]) \cup {Thrown} : ApiDecrypt(i, data)

SpecInverse == Init /\ [][NextInverse]_vars

(***************************************************************************)
(* C15: with lsb selected, a forward transform with message M sets         *)
(* hasEncrypted, makes a history of length 1 from an empty one, and its    *)
(* forward result carries M; a reverse transform of a forward result       *)
(* recovers the message that result carries.  So forward then reverse      *)
(* recovers M, "hello" in the scenario.                                    *)
(***************************************************************************)
C15_LsbRoundTrip ==
  /\ [][\A i \in DOMAIN ops :
          (ops[i].alg = "lsb" /\ ApiEncrypt(i, TrueInverseEncrypt(ops[i]))) =>
             /\ hasEncrypted'
             /\ (history = <<>> => Len(history') = 1)
             /\ Extract(base64Data(Val(encryptedImageUrl'))) =
                  Some(ops[i].lsbMessage)]_vars
  /\ [][\A i \in DOMAIN ops :
          (ops[i].alg = "lsb" /\ ApiDecrypt(i, TrueInverseDecrypt(ops[i]))) =>
             decryptedMessage' = Extract(base64Data(Val(ops[i].encUrl)))]_vars

\* the scenario: "hello" has been hidden and recovered
C15_Witness ==
  /\ variant = "remote"
  /\ selectedAlgorithm = "lsb"
  /\ lsbMessage = "hello"
  /\ hasEncrypted
  /\ Len(history) = 1
  /\ Extract(base64Data(Val(encryptedImageUrl))) = Some("hello")
  /\ decryptedMessage = Some("hello")
  /\ ops = <<>>

(***************************************************************************)
(* C16: a record leaves the history only by eviction on a later insertion. *)
(* Reset, upload, the selection of a history item, a click that starts no  *)
(* operation and a failed forward or reverse operation leave the list as   *)
(* it is; a step that changes the list either rewrites records in place    *)
(* (same length, same ids at the same positions) or puts one record in     *)
(* front of the old list, cut to its first HistoryLimit - 1 records.       *)
(***************************************************************************)
C16_RecordsLeaveOnlyByEviction ==
  /\ [][(\/ handleReset
         \/ Upload
         \/ HistorySelect
         \/ (ClickEncrypt \/ ClickDecrypt) /\ ops' = ops
         \/ \E i \in DOMAIN ops : OperationFails(i)) =>
           history' = history]_vars
  /\ [][history' # history =>
          \/ /\ Len(history') = Len(history)
             /\ \A k \in DOMAIN history : history'[k].id = history[k].id
          \/ /\ history' # <<>>
             /\ history' = <<history'[1]>> \o
                  SubSeq(history, 1, Min(Len(history), HistoryLimit - 1))]_vars

\* a record is in the list, the snapshot has been reset, and an upload has
\* then been turned down
C16_Witness ==
  /\ history # <<>>
  /\ uploadedImage = Null
  /\ encryptedImageUrl = Null
  /\ ~hasEncrypted
  /\ IsError(errorState)

(***************************************************************************)
(* C17: an upload of a file whose type is not image/jpeg, image/png or     *)
(* image/bmp changes nothing at all (UploadZone shows a toast and does not *)
(* call the dashboard); an upload of a file of accepted type and of more   *)
(* than 10 * 1024 * 1024 bytes sets an error message and leaves source,    *)
(* results, metrics, hasEncrypted, progress and history unchanged; a file  *)
(* of accepted type and of at most that size is accepted, without error.   *)
(***************************************************************************)
C17_UploadValidation ==
  /\ [](\A file \in Files :
          file.type \notin validTypes => ~ENABLED <<handleFileSelect(file)>>_vars)
  /\ [][\A file \in Files :
          (/\ handleFileSelect(file)
           /\ file.type \in validTypes
           /\ file.size > maxSize) =>
             /\ IsError(errorState')
             /\ UNCHANGED <<uploadedImage, originalImageUrl, encryptedImageUrl,
                            decryptedImageUrl, metrics, hasEncrypted, progress,
                            history>>]_vars
  /\ [][\A file \in Files :
          (/\ handleFileSelect(file)
           /\ file.type \in validTypes
           /\ file.size <= maxSize) =>
             /\ errorState' = Null
             /\ \/ uploadedImage' = Some(file)
                \/ /\ variant = "remote"
                   /\ startsWith(file.name, "encrypted_")
                   /\ encryptedImageUrl' = Some(createObjectURL(nextBlob))]_vars

\* a file of more than maxSize bytes has been turned down after a forward
\* transform, whose results are still there
C17_Witness ==
  /\ IsError(errorState)
  /\ Val(errorState).message = "File too large"
  /\ uploadedImage = Some(FileA)
  /\ hasEncrypted
  /\ encryptedImageUrl # Null
  /\ metrics # Null
  /\ history # <<>>

(***************************************************************************)
(* C18: in the metrics of the snapshot and of every record, encryptionTime *)
(* is set when the forward transform completes and does not change         *)
(* afterwards, and decryptionTime is absent (0, as a number without a      *)
(* measurement) from the completion of the forward transform until a       *)
(* reverse transform completes.                                            *)
(***************************************************************************)
C18_ReverseDurationAbsentUntilReverse ==
  /\ [][Len(history') = Len(history) =>
          \A k \in DOMAIN history :
            Val(history'[k].metrics).encryptionTime =
              Val(history[k].metrics).encryptionTime]_vars
  /\ [][\A i \in DOMAIN ops :
          ForwardSucceeds(i) =>
            /\ Val(metrics').decryptionTime = 0
            /\ Val(history'[1].metrics).decryptionTime = 0]_vars

(***************************************************************************)
(* The batched pixel transformer on images of many sizes: the local build  *)
(* with an image of any of PixelCounts pixels uploaded, and the forward    *)
(* transform only.                                                         *)
(***************************************************************************)
PixelCounts == {1, 999, 1000, 1001, 1999, 2000, 2001, 2500, 3000, 19999,
                20000, 20019, 20020, 20039, 20040, 24000}

InitBatch ==
  /\ variant = "local"
  /\ \E n \in PixelCounts : uploadedImage = Some([FileA EXCEPT !.pixels = n])
  /\ originalImageUrl = Some(createObjectURL(1))
  /\ nextBlob = 2
  /\ intents = 3
  /\ selectedAlgorithm = "aes"
  /\ encryptedImageUrl = Null
  /\ decryptedImageUrl = Null
  /\ metrics = Null
  /\ isProcessing = FALSE
  /\ hasEncrypted = FALSE
  /\ progress = 0
  /\ history = <<>>
  /\ errorState = Null
  /\ passphrase = ""
  /\ lsbMessage = ""
  /\ decryptedMessage = Null
  /\ ops = <<>>
  /\ now = 0
  /\ emitted = <<>>
  /\ imageData = NoImageData

NextBatch ==
  \/ ClickEncrypt
  \/ \E i \in DOMAIN ops, outcome \in ImageOutcomes : ImageLoaded(i, outcome)
  \/ \E i \in DOMAIN ops : BatchTimer(i)
  \/ \E i \in DOMAIN ops, blob \in BOOLEAN : ToBlobCallback(i, blob)

SpecBatch == InitBatch /\ [][NextBatch]_vars

(***************************************************************************)
(* C19: simulateProgressiveEncryption rewrites the pixels in consecutive   *)
(* chunks of max(1000, floor(totalPixels / 20)) pixels, the last one       *)
(* possibly shorter; each call of processBatch is a step of its own and    *)
(* rewrites one chunk; the blob is asked for, and the promise resolved,    *)
(* only when processedPixels equals totalPixels, and by then every pixel   *)
(* index in 0 .. totalPixels - 1 has been rewritten exactly once.          *)
(***************************************************************************)
C19_BatchesPartitionPixels ==
  /\ [](\A i \in DOMAIN ops :
          LET op == ops[i]
              total == Val(op.file).pixels
              chunk == IF total \div 20 > 1000 THEN total \div 20 ELSE 1000
          IN /\ \A k \in DOMAIN op.mutated :
                  /\ op.mutated[k][1] = (k - 1) * chunk
                  /\ op.mutated[k][2] = IF k * chunk < total THEN k * chunk ELSE total
                  /\ op.mutated[k][1] < op.mutated[k][2]
             /\ op.processedPixels =
                  IF op.mutated = <<>> THEN 0 ELSE op.mutated[Len(op.mutated)][2]
             /\ op.pc = "blob" =>
                  /\ op.processedPixels = total
                  /\ \A px \in 0..(total - 1) :
                       Cardinality({k \in DOMAIN op.mutated :
                                      op.mutated[k][1] <= px /\ px < op.mutated[k][2]}) = 1)
  /\ [][\A i \in DOMAIN ops :
          /\ (i \in DOMAIN ops' /\ ops'[i].kind = ops[i].kind) =>
                Len(ops'[i].mutated) <= Len(ops[i].mutated) + 1
          /\ ToBlobCallback(i, TRUE) =>
                ops[i].processedPixels = Val(ops[i].file).pixels]_vars

\* an image of 24000 pixels has been transformed in 20 chunks of 1200
C19_Witness ==
  /\ ops # <<>>
  /\ ops[1].pc = "blob"
  /\ Val(ops[1].file).pixels = 24000
  /\ Len(ops[1].mutated) = 20
  /\ ops[1].mutated[20] = <<22800, 24000, "aes">>

(***************************************************************************)
(* C20: when the image fails to decode, when no 2d context is acquired or  *)
(* when no blob is produced, the forward operation ends in that step as a  *)
(* failure: its invocation is over, an error message is shown and          *)
(* isProcessing is false.                                                  *)
(***************************************************************************)
C20_TransformerRejectsOnFailure ==
  [][\A i \in DOMAIN ops :
       (\/ ImageLoaded(i, "onerror")
        \/ ImageLoaded(i, "noContext")
        \/ ToBlobCallback(i, FALSE)) =>
          /\ ops' = RemoveAt(ops, i)
          /\ IsError(errorState')
          /\ ~isProcessing']_vars

(***************************************************************************)
(* The body of the for loop of processBatch, on the ImageData of a small   *)
(* image.  imageData.data is a Uint8ClampedArray: a number stored in it is *)
(* clamped to 0 .. 255 and rounded to the nearest integer, ties to even.   *)
(* Numbers with a fraction are kept in thousandths.                        *)
(***************************************************************************)
\* the values of Math.random() drawn in the loop, in thousandths
RandPixel == {0, 10, 500, 510, 990, 999}

\* a plausible slip: the mask clears the two lowest bits
and0xFE_ClearsTwoBits(v) == (v \div 4) * 4

\* v & 0xFE
and0xFE(v) == (v \div 2) * 2

\* Math.random() > 0.5 ? 1 : 0
randomBit(r) == IF r > 500 THEN 1 ELSE 0

\* a plausible slip: the offset is drawn from [-50, 50)
noise_Wider(r) == r * 100 - 50000

\* Math.random() * 50 - 25, in thousandths
noise(r) == r * 50 - 25000

\* the conversion of a number (in thousandths) stored in a Uint8ClampedArray
ToUint8Clamp(x) ==
  IF x <= 0 THEN 0
  ELSE IF x >= 255000 THEN 255
  ELSE LET f == x \div 1000
           rest == x % 1000
       IN IF rest < 500 THEN f
          ELSE IF rest > 500 THEN f + 1
          ELSE IF f % 2 = 0 THEN f ELSE f + 1

\* one pass of `for (let i = processedPixels; i < endIndex; i++) { ... }`,
\* where r1, r2, r3 are the values of Math.random() it draws
forBody(r1, r2, r3) ==
  LET data == imageData.data
      pixelIndex == imageData.i * 4
      at(k) == data[pixelIndex + k + 1]
  IN /\ imageData.i < Len(data) \div 4
     /\ imageData' =
          [i |-> imageData.i + 1,
           data |->
             IF selectedAlgorithm = "lsb"
             THEN [data EXCEPT
                     ![pixelIndex + 1] = and0xFE(at(0)) + randomBit(r1),
                     ![pixelIndex + 2] = and0xFE(at(1)) + randomBit(r2),
                     ![pixelIndex + 3] = and0xFE(at(2)) + randomBit(r3)]
             ELSE [data EXCEPT
                     ![pixelIndex + 1] =
                        ToUint8Clamp(Max(0, Min(255000, at(0) * 1000 + noise(r1)))),
                     ![pixelIndex + 2] =
                        ToUint8Clamp(Max(0, Min(255000, at(1) * 1000 + noise(r1)))),
                     ![pixelIndex + 3] =
                        ToUint8Clamp(Max(0, Min(255000, at(2) * 1000 + noise(r1))))]]
     /\ UNCHANGED <<variant, uploadedImage, selectedAlgorithm, originalImageUrl,
                    encryptedImageUrl, decryptedImageUrl, metrics, isProcessing,
                    hasEncrypted, progress, history, errorState, passphrase,
                    lsbMessage, decryptedMessage, ops, now, nextBlob, intents,
                    emitted>>

\* the channel values the first pixel of the image is drawn from
Channels == {0, 24, 231, 255}
Alphas == {0, 255}

\* the second pixel of the image
PixelB == <<255, 0, 127, 255>>

InitPixel ==
  /\ variant = "local"
  /\ selectedAlgorithm \in EncryptionAlgorithm
  /\ \E r \in Channels, g \in Channels, b \in Channels, a \in Alphas :
       imageData = [data |-> <<r, g, b, a>> \o PixelB, i |-> 0]
  /\ uploadedImage = Null
  /\ originalImageUrl = Null
  /\ encryptedImageUrl = Null
  /\ decryptedImageUrl = Null
  /\ metrics = Null
  /\ isProcessing = FALSE
  /\ hasEncrypted = FALSE
  /\ progress = 0
  /\ history = <<>>
  /\ errorState = Null
  /\ passphrase = ""
  /\ lsbMessage = ""
  /\ decryptedMessage = Null
  /\ ops = <<>>
  /\ now = 0
  /\ nextBlob = 1
  /\ intents = 0
  /\ emitted = <<>>

NextPixel ==
  \E r1 \in RandPixel, r2 \in RandPixel, r3 \in RandPixel : forBody(r1, r2, r3)

SpecPixel == InitPixel /\ [][NextPixel]_vars

(***************************************************************************)
(* C21: with lsb selected, a pass of the loop leaves the pixel it is at    *)
(* with its first three channels changed in bit 0 at most (the seven upper *)
(* bits are kept, bit 0 is set to a random bit), and changes neither the   *)
(* alpha channel nor any other pixel.                                      *)
(***************************************************************************)
C21_LsbTouchesOnlyBitZero ==
  [][selectedAlgorithm = "lsb" =>
       LET pixelIndex == imageData.i * 4
       IN /\ Len(imageData'.data) = Len(imageData.data)
          /\ \A k \in DOMAIN imageData.data :
               IF k \in (pixelIndex + 1)..(pixelIndex + 3)
               THEN /\ imageData'.data[k] \div 2 = imageData.data[k] \div 2
                    /\ imageData'.data[k] \in 0..255
               ELSE imageData'.data[k] = imageData.data[k]]_vars

\* both pixels have been through the loop with lsb selected; in the second
\* one a channel kept its value and another one changed in bit 0
C21_Witness ==
  /\ selectedAlgorithm = "lsb"
  /\ imageData.i = 2
  /\ imageData.data[5] = 255
  /\ imageData.data[6] = 1
  /\ imageData.data[8] = 255

\* C21 as stated: each of the first three channels has its bit 0 inverted
C21_LsbInvertsBitZero ==
  [][selectedAlgorithm = "lsb" =>
       LET pixelIndex == imageData.i * 4
       IN \A k \in (pixelIndex + 1)..(pixelIndex + 3) :
            imageData'.data[k] =
              IF imageData.data[k] % 2 = 0
              THEN imageData.data[k] + 1
              ELSE imageData.data[k] - 1]_vars

(***************************************************************************)
(* C22: with any other selector, a pass of the loop leaves each of the     *)
(* first three channels of the pixel it is at within 0 .. 255 and at most  *)
(* 25 away from its value before, and changes neither the alpha channel    *)
(* nor any other pixel.                                                    *)
(***************************************************************************)
C22_NoiseBoundedAndClamped ==
  [][selectedAlgorithm # "lsb" =>
       LET pixelIndex == imageData.i * 4
       IN /\ Len(imageData'.data) = Len(imageData.data)
          /\ \A k \in DOMAIN imageData.data :
               IF k \in (pixelIndex + 1)..(pixelIndex + 3)
               THEN /\ imageData'.data[k] \in 0..255
                    /\ imageData'.data[k] - imageData.data[k] \in -25..25
               ELSE imageData'.data[k] = imageData.data[k]]_vars

\* both pixels have been through the loop with aes selected: in the first
\* a channel went up by 25 and one was held at 255, in the second two went
\* down by 25 and one was held at 0
C22_Witness ==
  /\ selectedAlgorithm = "aes"
  /\ imageData.i = 2
  /\ imageData.data[1] = 25
  /\ imageData.data[2] = 255
  /\ imageData.data[5] = 230
  /\ imageData.data[6] = 0
  /\ imageData.data[7] = 102
  /\ imageData.data[8] = 255

(***************************************************************************)
(* C23: the metrics stored when a forward transform completes have a psnr  *)
(* in 45 .. 55 and an ssim in 0.95 .. 0.99 when the transform was started  *)
(* with lsb, and a psnr in 25 .. 40 and an ssim in 0.70 .. 0.90 otherwise, *)
(* in both builds (psnr in thousandths, ssim in hundred-thousandths).      *)
(***************************************************************************)
C23_MetricsInRange ==
  [][\A i \in DOMAIN ops :
       ForwardSucceeds(i) =>
         LET m == Val(metrics')
         IN /\ history'[1].metrics = metrics'
            /\ IF ops[i].alg = "lsb"
               THEN m.psnr \in 45000..55000 /\ m.ssim \in 95000..99000
               ELSE m.psnr \in 25000..40000 /\ m.ssim \in 70000..90000]_vars

(***************************************************************************)
(* C24: a forward transform whose source has been replaced by the upload   *)
(* of a new image (the snapshot holds another object URL than the one the  *)
(* transform was started with) updates nothing any more: its steps leave   *)
(* progress, the forward result, the metrics and the history as they are.  *)
(***************************************************************************)
C24_SupersededForwardIsDropped ==
  [][\A i \in DOMAIN ops :
       (/\ variant = "local"
        /\ ops[i].kind = "encrypt"
        /\ originalImageUrl # Null
        /\ ops[i].origUrl # originalImageUrl
        /\ \/ \E outcome \in ImageOutcomes : ImageLoaded(i, outcome)
           \/ BatchTimer(i)
           \/ \E blob \in BOOLEAN : ToBlobCallback(i, blob)) =>
         UNCHANGED <<progress, encryptedImageUrl, hasEncrypted, metrics,
                     history>>]_vars

(***************************************************************************)
(* C25: in every reachable state hasEncrypted is true exactly when the     *)
(* snapshot holds a forward result (encryptedImageUrl is not null).        *)
(***************************************************************************)
C25_HasEncryptedIffForwardResult ==
  hasEncrypted <=> encryptedImageUrl # Null

\* a forward transform has completed after a reset: the snapshot has no
\* source but has a forward result
C25_Witness ==
  /\ hasEncrypted
  /\ encryptedImageUrl # Null
  /\ uploadedImage = Null
  /\ variant = "local"
  /\ Len(history) = 1
  /\ selectedAlgorithm = "aes"
  /\ decryptedImageUrl = Null

(***************************************************************************)
(* C26: in every reachable state a snapshot that holds a reverse result    *)
(* holds a forward result (decryptedImageUrl not null implies              *)
(* encryptedImageUrl not null).                                            *)
(***************************************************************************)
C26_ReverseResultImpliesForwardResult ==
  decryptedImageUrl # Null => encryptedImageUrl # Null

(***************************************************************************)
(* C27: in the local build, the step in which a reverse transform ends     *)
(* with the message "Decryption completed successfully!" leaves a reverse  *)
(* result in the snapshot (decryptedImageUrl is not null).                 *)
(***************************************************************************)
C27_ReverseSuccessHasResult ==
  [][\A i \in DOMAIN ops :
       (/\ variant = "local"
        /\ ReverseSucceeds(i)
        /\ errorState' = Message("success", "Decryption completed successfully!",
                                 Val(errorState').details)) =>
         decryptedImageUrl' # Null]_vars

(***************************************************************************)
(* C28: in the remote build, a response to /encrypt that has no error      *)
(* field, no encrypted_image and no encrypted_file_url is not a success:   *)
(* the step that handles it sets no forward result, leaves hasEncrypted as *)
(* it is and adds no record to the history.                                *)
(***************************************************************************)
C28_EmptyResponseIsNoSuccess ==
  [][\A i \in DOMAIN ops :
       ApiEncrypt(i, NoData) =>
         UNCHANGED <<encryptedImageUrl, hasEncrypted, history>>]_vars

(***************************************************************************)
(* Fair scheduling of the callbacks of the local build: an image that is   *)
(* loading fires onload or onerror, a timer that is set fires, and toBlob  *)
(* calls its callback.                                                     *)
(***************************************************************************)
Fairness ==
  /\ WF_vars(\E i \in DOMAIN ops, outcome \in ImageOutcomes : ImageLoaded(i, outcome))
  /\ WF_vars(\E i \in DOMAIN ops : BatchTimer(i))
  /\ WF_vars(\E i \in DOMAIN ops, blob \in BOOLEAN : ToBlobCallback(i, blob))
  /\ WF_vars(\E i \in DOMAIN ops : IntervalTick(i))

SpecLive == Init /\ [][Next]_vars /\ Fairness

(***************************************************************************)
(* C29: under fair scheduling of the callbacks, whenever isProcessing is   *)
(* true in the local build it is false again at some later time.           *)
(***************************************************************************)
C29_LocalOperationEnds ==
  (variant = "local" /\ isProcessing) ~> ~isProcessing

(***************************************************************************)
(* C30: a forward transform keeps the selector it was started with: the    *)
(* invocation made by a click on Encrypt holds the selectedAlgorithm of    *)
(* that moment, no step changes it, every batch of the invocation tests    *)
(* that value, and the record made on completion stores it, whatever the   *)
(* selector has become in the meantime.                                    *)
(***************************************************************************)
C30_AlgorithmFixedAtStart ==
  /\ [][(ClickEncrypt /\ Len(ops') > Len(ops)) =>
          ops'[Len(ops')].alg = selectedAlgorithm]_vars
  /\ [][Len(ops') = Len(ops) =>
          \A i \in DOMAIN ops : ops'[i].alg = ops[i].alg]_vars
  /\ [](\A i \in DOMAIN ops :
          \A k \in DOMAIN ops[i].mutated : ops[i].mutated[k][3] = ops[i].alg)
  /\ [][\A i \in DOMAIN ops :
          ForwardSucceeds(i) => history'[1].algorithm = ops[i].alg]_vars

\* the selector was changed while a transform started with aes was in
\* flight; its three batches have tested aes
C30_Witness ==
  /\ variant = "local"
  /\ selectedAlgorithm = "lsb"
  /\ Len(ops) = 1
  /\ ops[1].kind = "encrypt"
  /\ ops[1].pc = "blob"
  /\ ops[1].alg = "aes"
  /\ Len(ops[1].mutated) = 3
  /\ ops[1].mutated[3][3] = "aes"

====
